---- MODULE Spec2Model ----
(***************************************************************************)
(* A model of the tips CLI (jonnyspicer/tips): the interactive display     *)
(* session of tui.go (model, initialModel, Update, View), the storage      *)
(* functions and TipsData methods (loadTips, saveTips, addTip, removeTip,  *)
(* getRandomTip) and the generate command that runs as a second process    *)
(* on the same storage file.                                               *)
(*                                                                         *)
(* Text is a sequence of one-character strings, so that strings.TrimSpace  *)
(* is computed and not assumed.  A Go pointer is modelled by what it       *)
(* refers to: *Tip is either nil, a slot of the backing array of the       *)
(* session's TipsData.Tips ("ref"), or an element of an array nobody else  *)
(* refers to ("val").  Tip.CreatedAt is left out: no modelled operation    *)
(* reads it.                                                               *)
(***************************************************************************)
EXTENDS Integers, Sequences, FiniteSets, Bags, TLC

--------------------------------------------------------------------------
(* Bounds of the model *)

\* tips in the storage file when the model starts
MaxInitTips == 2
\* tips in a collection the storage functions are called on directly
MaxStoreTips == 3
\* tips the generate command may create (uuid.New() calls)
MaxNewTips == 2
\* reload commands and reload results that may be outstanding at once
MaxInFlight == 1

--------------------------------------------------------------------------
(* Text *)

Sp == " "
G == <<"g">>
V == <<"v">>
A == <<"a">>
Blank == <<Sp>>
Empty == <<>>

\* a byte that is not valid UTF-8 (a Go string may hold it) and the Unicode
\* replacement character U+FFFD
Inv == "\\xff"
Rep == "\\ufffd"
\* a topic given on the command line with such a byte in it
X == <<Inv>>

RECURSIVE TrimLeft(_)
TrimLeft(s) ==
  IF s # <<>> /\ Head(s) = Sp THEN TrimLeft(Tail(s)) ELSE s

RECURSIVE TrimRight(_)
TrimRight(s) ==
  IF s # <<>> /\ s[Len(s)] = Sp THEN TrimRight(SubSeq(s, 1, Len(s) - 1)) ELSE s

\* strings.TrimSpace
TrimSpace(s) == TrimRight(TrimLeft(s))

--------------------------------------------------------------------------
(* Tip, TipsData *)

Tip(id, topic, content) == [ID |-> id, Topic |-> topic, Content |-> content]

\* the zero Tip; stands in the tip field of a pointer that is not a "val"
NoTip == Tip(0, <<>>, <<>>)

\* *TipsData: the backing array of Tips and the slice's length.  Slots above
\* len keep what was last written there.
TipsData(arr, n) == [nil |-> FALSE, arr |-> arr, len |-> n]

\* a nil *TipsData
NilTipsData == [nil |-> TRUE, arr |-> <<>>, len |-> 0]

\* &TipsData{}
EmptyTipsData == TipsData(<<>>, 0)

\* td.Tips
Tips(td) == SubSeq(td.arr, 1, td.len)

Ids(tips) == {tips[i].ID : i \in 1..Len(tips)}

\* *Tip
NilTip == [kind |-> "nil", idx |-> 0, tip |-> NoTip]
RefTip(i) == [kind |-> "ref", idx |-> i, tip |-> NoTip]
ValTip(t) == [kind |-> "val", idx |-> 0, tip |-> t]

\* *p for a non-nil *Tip, given the TipsData whose array "ref" points into
Deref(p, td) == IF p.kind = "ref" THEN td.arr[p.idx] ELSE p.tip

--------------------------------------------------------------------------
(* Storage: ~/.tips.json *)

AbsentFile == [kind |-> "absent", doc |-> <<>>]
ZeroLengthFile == [kind |-> "empty", doc |-> <<>>]
MalformedFile == [kind |-> "malformed", doc |-> <<>>]
JsonFile(doc) == [kind |-> "json", doc |-> doc]

\* what encoding/json makes of a string, writing and reading it: bytes that
\* are not valid UTF-8 become U+FFFD
ToValidUTF8(s) == [i \in 1..Len(s) |-> IF s[i] = Inv THEN Rep ELSE s[i]]

\* json.MarshalIndent of a TipsData: the objects of "tips", in order
Marshal(tips) ==
  [i \in 1..Len(tips) |->
     [id |-> tips[i].ID, topic |-> ToValidUTF8(tips[i].Topic),
      content |-> ToValidUTF8(tips[i].Content)]]

\* json.Unmarshal into a TipsData
Unmarshal(doc) ==
  [i \in 1..Len(doc) |->
     Tip(doc[i].id, ToValidUTF8(doc[i].topic), ToValidUTF8(doc[i].content))]

IoOutcomes == {"ok", "fail"}

LoadOk(tips) == [ok |-> TRUE, err |-> "", tips |-> tips]
LoadErr(e) == [ok |-> FALSE, err |-> e, tips |-> <<>>]

\* loadTips taking a file that does not parse for an empty one
loadTipsMalformedAsEmpty(f, io) ==
  IF f.kind = "absent" THEN LoadOk(<<>>)
  ELSE IF io = "fail" THEN LoadErr("failed to read tips file")
  ELSE IF f.kind \in {"empty", "malformed"} THEN LoadOk(<<>>)
  ELSE LoadOk(Unmarshal(f.doc))

\* loadTips(): f is the file, io whether os.ReadFile succeeds
loadTips(f, io) ==
  IF f.kind = "absent" THEN LoadOk(<<>>)
  ELSE IF io = "fail" THEN LoadErr("failed to read tips file")
  ELSE IF f.kind = "empty" THEN LoadOk(<<>>)
  ELSE IF f.kind = "malformed" THEN LoadErr("failed to parse tips file")
  ELSE LoadOk(Unmarshal(f.doc))

\* saveTips(tipsData) for a non-nil tipsData: io is whether os.WriteFile
\* succeeds; file is the storage file after the call
saveTips(tips, f, io) ==
  IF io = "fail"
  THEN [ok |-> FALSE, err |-> "failed to write tips file", file |-> f]
  ELSE [ok |-> TRUE, err |-> "", file |-> JsonFile(Marshal(tips))]

\* saveTips(tipsData), tipsData being nil or not
saveTipsOf(td, f, io) ==
  IF td.nil
  THEN [ok |-> FALSE, err |-> "tips data cannot be nil", file |-> f]
  ELSE saveTips(Tips(td), f, io)

\* the tips a storage file holds
FileTips(f) == IF f.kind = "json" THEN Unmarshal(f.doc) ELSE <<>>

--------------------------------------------------------------------------
(* TipsData methods *)

\* addTip putting the new tip in front of the others
addTipInFront(tips, id, topic, content) ==
  IF topic = <<>> \/ content = <<>>
  THEN tips
  ELSE <<Tip(id, TrimSpace(topic), TrimSpace(content))>> \o tips

\* td.addTip(topic, content) on the tips of td; id is what uuid.New() gives
addTip(tips, id, topic, content) ==
  IF topic = <<>> \/ content = <<>>
  THEN tips
  ELSE Append(tips, Tip(id, TrimSpace(topic), TrimSpace(content)))

\* the indices of td.Tips whose tip has this id
IndicesOf(td, id) == {i \in 1..td.len : td.arr[i].ID = id}

Min(S) == CHOOSE x \in S : \A y \in S : x <= y

\* td.Tips = append(td.Tips[:i], td.Tips[i+1:]...): the slots from i on are
\* overwritten in place by their successors, the last slot keeps its tip
RemoveAt(td, i) ==
  TipsData([j \in 1..Len(td.arr) |->
              IF j >= i /\ j < td.len THEN td.arr[j + 1] ELSE td.arr[j]],
           td.len - 1)

\* removeTip cutting the slice's last slot off instead of the slot found
removeTipDropsLast(td, id) ==
  IF IndicesOf(td, id) = {}
  THEN [found |-> FALSE, td |-> td]
  ELSE [found |-> TRUE, td |-> TipsData(td.arr, td.len - 1)]

\* removeTip cutting out the last tip with the id instead of the first
removeTipLastMatch(td, id) ==
  IF IndicesOf(td, id) = {}
  THEN [found |-> FALSE, td |-> td]
  ELSE [found |-> TRUE,
        td |-> RemoveAt(td, CHOOSE i \in IndicesOf(td, id) :
                              \A j \in IndicesOf(td, id) : j <= i)]

\* td.removeTip(id): the result and td after the call
removeTip(td, id) ==
  IF IndicesOf(td, id) = {}
  THEN [found |-> FALSE, td |-> td]
  ELSE [found |-> TRUE, td |-> RemoveAt(td, Min(IndicesOf(td, id)))]

\* topicMap[tip.Topic] for the map built from topics
InTopics(topic, topics) == \E k \in 1..Len(topics) : topics[k] = topic

\* getRandomTip taking no account of the topics
getRandomTipAnyTopic(td, topics) ==
  IF td.len = 0 THEN {NilTip}
  ELSE IF Len(topics) = 0 THEN {RefTip(i) : i \in 1..td.len}
  ELSE {ValTip(td.arr[i]) : i \in 1..td.len}

\* td.getRandomTip(topics): every *Tip rand.Intn can make it return.  Without
\* a filter filteredTips is td.Tips itself and the pointer is into td's own
\* array; with a filter it is into the freshly appended filteredTips.
getRandomTip(td, topics) ==
  IF td.len = 0 THEN {NilTip}
  ELSE IF Len(topics) = 0 THEN {RefTip(i) : i \in 1..td.len}
  ELSE IF \A i \in 1..td.len : ~InTopics(td.arr[i].Topic, topics) THEN {NilTip}
  ELSE {ValTip(td.arr[i]) : i \in {j \in 1..td.len : InTopics(td.arr[j].Topic, topics)}}

--------------------------------------------------------------------------
(* The display session: type model of tui.go *)

\* the defaults of the --refresh and --count flags
DefaultRefresh == 60
DefaultCount == 20

\* the topic filters and refresh intervals (minutes) a session is started with
TopicFlags == {<<>>, <<G>>}
RefreshFlags == {30, DefaultRefresh}

Model(td, cur, topics, rate, refreshed, quit, show, message) ==
  [tipsData |-> td, currentTip |-> cur, topicFilter |-> topics,
   refreshRate |-> rate, lastRefresh |-> refreshed, quit |-> quit,
   showNewTip |-> show, message |-> message]

\* the zero model: what the session is before initialModel has run
ZeroModel == Model(NilTipsData, NilTip, <<>>, 0, 0, FALSE, FALSE, <<>>)

\* status messages: "" is <<>>, fmt.Sprintf's results are prefix and error
NoMessage == <<>>
KnownMessage == <<"Tip marked as known!">>
SaveErrorMessage(e) == <<"Error saving: ", e>>
ErrorMessage(e) == <<"Error: ", e>>

\* tea.Cmd values: tickCmd(d), loadTipsCmd(), tea.Quit
TickCmd(d) == [c |-> "tick", d |-> d]
LoadCmd == [c |-> "load", d |-> 0]
QuitCmd == [c |-> "quit", d |-> 0]

(* View: what the renderer is given to draw *)

Output(kind, filter, tip, refresh, message) ==
  [kind |-> kind, filter |-> filter, topic |-> tip.Topic, content |-> tip.Content,
   refresh |-> refresh, message |-> message]

\* View testing the current tip before the collection's length
ViewCurrentFirst(mm) ==
  IF mm.quit THEN Output("", <<>>, NoTip, 0, NoMessage)
  ELSE IF mm.tipsData.nil THEN Output("Loading tips...", <<>>, NoTip, 0, NoMessage)
  ELSE IF mm.currentTip.kind = "nil"
    THEN IF Len(mm.topicFilter) > 0
         THEN Output("No tips found for topics", mm.topicFilter, NoTip, 0, NoMessage)
         ELSE Output("No tips available!", <<>>, NoTip, 0, NoMessage)
  ELSE IF mm.tipsData.len = 0
    THEN Output("No tips found. Generate some tips first", <<>>, NoTip, 0, NoMessage)
  ELSE Output("tip", <<>>, Deref(mm.currentTip, mm.tipsData), mm.refreshRate,
              mm.message)

\* m.View(): kind names the text returned; the tip shown is *m.currentTip
View(mm) ==
  IF mm.quit THEN Output("", <<>>, NoTip, 0, NoMessage)
  ELSE IF mm.tipsData.nil THEN Output("Loading tips...", <<>>, NoTip, 0, NoMessage)
  ELSE IF mm.tipsData.len = 0
    THEN Output("No tips found. Generate some tips first", <<>>, NoTip, 0, NoMessage)
  ELSE IF mm.currentTip.kind = "nil"
    THEN IF Len(mm.topicFilter) > 0
         THEN Output("No tips found for topics", mm.topicFilter, NoTip, 0, NoMessage)
         ELSE Output("No tips available!", <<>>, NoTip, 0, NoMessage)
  ELSE Output("tip", <<>>, Deref(mm.currentTip, mm.tipsData), mm.refreshRate,
              mm.message)

\* nothing has been rendered yet
Unrendered == Output("unrendered", <<>>, NoTip, 0, NoMessage)

--------------------------------------------------------------------------
(* The test harness's APITestRunner (test_config.go) *)

\* DefaultTestConfig: MaxRetries, and MaxCostUSD in millionths of a dollar
DefaultMaxRetries == 3
DefaultMaxCostUSD == 100000

\* estimateAPICost's price of a token, in millionths of a dollar: 0.002,
\* 0.008, 0.001 and 0.01 dollars for a thousand tokens
RateOpenAI == 2
RateAnthropic == 8
RateGoogle == 1
RateOther == 10

\* successful requests a runner makes
MaxRequests == 2

TestConfig(retries, cost) == [MaxRetries |-> retries, MaxCostUSD |-> cost]
DefaultTestConfig == TestConfig(DefaultMaxRetries, DefaultMaxCostUSD)

\* the configurations a test gives its runner
TestConfigs ==
  {TestConfig(retries, cost) :
     retries \in 0..DefaultMaxRetries, cost \in {0, DefaultMaxCostUSD}}

\* the providers and token counts EstimateAndCheckCost is called with
Providers == {"openai", "anthropic", "google", "other"}
TokenCounts == {0, 5000}

\* an error value is the words of its text, nil is <<>>
NilError == <<>>

\* what the operation given to ExecuteWithRetry returns
OperationResults ==
  {NilError, <<"Rate Limit", "exceeded">>, <<"http", "503">>,
   <<"invalid", "api key">>}

\* strings.ToLower, on a word
ToLower(w) == IF w = "Rate Limit" THEN "rate limit" ELSE w

RetryableErrors ==
  {"rate limit", "timeout", "temporary failure", "connection refused",
   "network error", "500", "502", "503", "504"}

\* isRetryableError treating every error as one to retry
isRetryableErrorAlways(err) == err # NilError

isRetryableError(err) ==
  /\ err # NilError
  /\ \E i \in 1..Len(err) : ToLower(err[i]) \in RetryableErrors

estimateAPICost(provider, promptTokens, maxTokens) ==
  LET totalTokens == promptTokens + maxTokens
  IN CASE provider = "openai" -> totalTokens * RateOpenAI
       [] provider = "anthropic" -> totalTokens * RateAnthropic
       [] provider = "google" -> totalTokens * RateGoogle
       [] OTHER -> totalTokens * RateOther

\* an APITestRunner; pc, attempt and lastErr are where a call of
\* ExecuteWithRetry is: pc is "idle" when none is running and "loop" at the
\* head of its for loop
Runner(config, requestCount, totalCost, p, attempt, lastErr) ==
  [config |-> config, requestCount |-> requestCount, totalCost |-> totalCost,
   pc |-> p, attempt |-> attempt, lastErr |-> lastErr]

NewAPITestRunner(config) == Runner(config, 0, 0, "idle", 0, NilError)

\* a call of a method of the runner: its name, the number of times it has
\* invoked the operation, what the operation returned last, requestCount and
\* totalCost when it was called, the cost it estimated, and what it returned
\* ("" while it runs, "nil" or "error")
Called(name, invoked, op, count, cost, est, ret) ==
  [name |-> name, invoked |-> invoked, op |-> op, count |-> count,
   cost |-> cost, est |-> est, ret |-> ret]

NoCall == Called("none", 0, NilError, 0, 0, 0, "")

\* EstimateAndCheckCost adding the estimate whatever the limit
EstimateAndCheckCostCharges(r, provider, promptTokens, maxTokens) ==
  LET estimatedCost == estimateAPICost(provider, promptTokens, maxTokens)
  IN [runner |-> [r EXCEPT !.totalCost = @ + estimatedCost],
      ret |-> IF r.totalCost + estimatedCost > r.config.MaxCostUSD
              THEN "error" ELSE "nil"]

\* EstimateAndCheckCost on runner r: the runner after it and what it returns
EstimateAndCheckCost(r, provider, promptTokens, maxTokens) ==
  LET estimatedCost == estimateAPICost(provider, promptTokens, maxTokens)
  IN IF r.totalCost + estimatedCost > r.config.MaxCostUSD
     THEN [runner |-> r, ret |-> "error"]
     ELSE [runner |-> [r EXCEPT !.totalCost = @ + estimatedCost],
           ret |-> "nil"]

VARIABLES
  topicFlag,  \* the session process's --topic flag
  refreshFlag, \* the session process's --refresh flag
  pc,         \* "boot", "running" (p.Run() is in its event loop), "exited",
              \* "exit1" (os.Exit(1))
  m,          \* the model the event loop holds
  file,       \* the storage file
  tickCmds,   \* bag of the durations of the tea.Tick commands not yet fired
  loadCmds,   \* number of loadTipsCmd commands that have not read the file yet
  inbox,      \* bag of the results of loadTipsCmd not yet handed to Update
  quitCmd,    \* a tea.Quit has been issued and its QuitMsg is not yet handled
  last,       \* the last message Update handled: what it was given and returned
  gen,        \* the generate command (a second process)
  nextId,     \* the next id uuid.New() gives
  dismissed,  \* ids the session removed with a successful save
  genSaved,   \* ids of the tips the generate command wrote to storage
  lost,       \* ids a save of the session dropped from storage without a dismiss
  screen,     \* what View returned when the loop last rendered the model
  printed,    \* what the session process wrote with fmt.Print* and
              \* fmt.Fprintf(os.Stderr, ...), in order
  runner,     \* the APITestRunner of a test and where its ExecuteWithRetry is
  called      \* the runner's method called last: what it was given and returned

vars == <<topicFlag, refreshFlag, pc, m, file, tickCmds, loadCmds, inbox, quitCmd, last, gen, nextId,
          dismissed, genSaved, lost, screen, printed, runner, called>>

sessionVars == <<topicFlag, refreshFlag, pc, m, tickCmds, loadCmds, inbox, quitCmd,
                 screen, printed>>
historyVars == <<dismissed, genSaved, lost>>

\* the last step: ev names the message Update handled ("cmd" when the step
\* was not a call of Update), cmd is the tea.Cmd Update returned as the list
\* of the commands batched in it, save is "ok" or "fail" when Update called
\* saveTips and "none" when it did not; for the key "k", id is the id
\* removeTip was called with (0 when it was not called), n the length of
\* the collection when the key arrived and found what removeTip returned
LastK(cmd, save, id, n) ==
  [ev |-> "k", cmd |-> cmd, save |-> save, id |-> id, n |-> n,
   found |-> save # "none"]
Last(ev, cmd, save) ==
  [ev |-> ev, cmd |-> cmd, save |-> save, id |-> 0, n |-> 0, found |-> FALSE]
NoSave == "none"
Saved(ok) == IF ok THEN "ok" ELSE "fail"
NotUpdate == Last("cmd", <<>>, NoSave)

\* initialModel leaving showNewTip set when it has picked a tip
initialModelKeepsPending(topics, refreshMinutes, r) ==
  LET tipsData == IF r.ok THEN TipsData(r.tips, Len(r.tips)) ELSE EmptyTipsData
      mm == Model(tipsData, NilTip, topics, refreshMinutes, 0, FALSE, TRUE, NoMessage)
  IN IF ~tipsData.nil /\ tipsData.len > 0
     THEN {[mm EXCEPT !.currentTip = tip] : tip \in getRandomTip(tipsData, topics)}
     ELSE {mm}

\* initialModel(topics, refreshMinutes): every model it can return, r being
\* what loadTips returned
initialModel(topics, refreshMinutes, r) ==
  LET tipsData == IF r.ok THEN TipsData(r.tips, Len(r.tips)) ELSE EmptyTipsData
      mm == Model(tipsData, NilTip, topics, refreshMinutes, 0, FALSE, TRUE, NoMessage)
  IN IF ~tipsData.nil /\ tipsData.len > 0
     THEN {IF tip.kind # "nil"
           THEN [mm EXCEPT !.currentTip = tip, !.showNewTip = FALSE]
           ELSE mm : tip \in getRandomTip(tipsData, topics)}
     ELSE {mm}

\* initialModel printing nothing
initialModelPrintsNothing(r) == <<>>

\* initialModel, lines 30-33: what it prints, r being what loadTips returned
initialModelPrints(r) ==
  IF r.ok THEN <<>>
  ELSE <<Output("Error loading tips", <<>>, NoTip, 0, <<r.err>>)>>

\* the selection step leaving showNewTip set
SelectionKeepsFlag(mm) ==
  IF mm.showNewTip /\ ~mm.tipsData.nil
  THEN {[mm EXCEPT !.currentTip = IF newTip.kind # "nil" THEN newTip ELSE @,
                   !.message = NoMessage]
          : newTip \in getRandomTip(mm.tipsData, mm.topicFilter)}
  ELSE {mm}

\* Update, lines 113-121: the selection step that ends the handling of a key
Selection(mm) ==
  IF mm.showNewTip /\ ~mm.tipsData.nil
  THEN {[mm EXCEPT !.currentTip = IF newTip.kind # "nil" THEN newTip ELSE @,
                   !.showNewTip = FALSE,
                   !.message = NoMessage]
          : newTip \in getRandomTip(mm.tipsData, mm.topicFilter)}
  ELSE {mm}

\* the "k" case calling saveTips whether removeTip found the tip or not
MarkKnownSavesAlways(mm, f, io) ==
  IF mm.currentTip.kind # "nil" /\ ~mm.tipsData.nil
  THEN LET id == Deref(mm.currentTip, mm.tipsData).ID
           r == removeTip(mm.tipsData, id)
           s == saveTips(Tips(r.td), f, io)
       IN [m |-> IF s.ok
                 THEN [mm EXCEPT !.tipsData = r.td, !.message = KnownMessage,
                                 !.showNewTip = TRUE]
                 ELSE [mm EXCEPT !.tipsData = r.td,
                                 !.message = SaveErrorMessage(s.err)],
           file |-> s.file, save |-> Saved(s.ok), id |-> id]
  ELSE [m |-> mm, file |-> f, save |-> NoSave, id |-> 0]

\* the "k" case setting its message when removeTip did not find the tip
MarkKnownAnnouncesAlways(mm, f, io) ==
  IF mm.currentTip.kind # "nil" /\ ~mm.tipsData.nil
  THEN LET id == Deref(mm.currentTip, mm.tipsData).ID
           r == removeTip(mm.tipsData, id)
           s == saveTips(Tips(r.td), f, io)
       IN IF r.found
          THEN [m |-> IF s.ok
                      THEN [mm EXCEPT !.tipsData = r.td, !.message = KnownMessage,
                                      !.showNewTip = TRUE]
                      ELSE [mm EXCEPT !.tipsData = r.td,
                                      !.message = SaveErrorMessage(s.err)],
                file |-> s.file, save |-> Saved(s.ok), id |-> id]
          ELSE [m |-> [mm EXCEPT !.message = KnownMessage], file |-> f,
                save |-> NoSave, id |-> id]
  ELSE [m |-> mm, file |-> f, save |-> NoSave, id |-> 0]

\* Update, case "k" (lines 85-95): the model, the file, the save made and
\* the id given to removeTip, io being whether the write of saveTips succeeds
MarkKnown(mm, f, io) ==
  IF mm.currentTip.kind # "nil" /\ ~mm.tipsData.nil
  THEN LET id == Deref(mm.currentTip, mm.tipsData).ID
           r == removeTip(mm.tipsData, id)
           s == saveTips(Tips(r.td), f, io)
       IN IF r.found
          THEN [m |-> IF s.ok
                      THEN [mm EXCEPT !.tipsData = r.td,
                                      !.message = KnownMessage,
                                      !.showNewTip = TRUE]
                      ELSE [mm EXCEPT !.tipsData = r.td,
                                      !.message = SaveErrorMessage(s.err)],
                file |-> s.file,
                save |-> Saved(s.ok),
                id |-> id]
          ELSE [m |-> mm, file |-> f, save |-> NoSave, id |-> id]
  ELSE [m |-> mm, file |-> f, save |-> NoSave, id |-> 0]

--------------------------------------------------------------------------
(* The generate command: generateTipsForTopics, run as a second process *)

\* the -t and -c flags a generate command is started with
GenTopicFlags == {<<>>, <<G>>, <<Blank, V>>, <<G, V>>}
CountFlags == {0, 1}

FirstNewId == MaxInitTips + 1
Created == nextId - FirstNewId

\* what generateTips can return with no error: the contents of its
\* TipResponses, which may be blank or empty
Responses == {<<A>>, <<Blank>>, <<Empty, A>>}

Gen(p, topics, count, i, resp, tips) ==
  [pc |-> p, topics |-> topics, count |-> count, i |-> i, resp |-> resp,
   tips |-> tips]

\* for _, tip := range tips { tipsData.addTip(topic, tip.Content) }: the tips
\* after the loop, ids being given out from id on
RECURSIVE AddAll(_, _, _, _)
AddAll(tips, id, topic, resp) ==
  IF resp = <<>> THEN tips
  ELSE LET added == addTip(tips, id, topic, Head(resp))
       IN AddAll(added, IF added = tips THEN id ELSE id + 1, topic, Tail(resp))

--------------------------------------------------------------------------
(* Initial states *)

\* the tips a storage file can hold at the start: ids 1..n, any topics
RECURSIVE InitTips(_)
InitTips(n) ==
  IF n = 0 THEN {<<>>}
  ELSE {Append(t, Tip(n, topic, A)) : t \in InitTips(n - 1), topic \in {G, V}}

InitFiles ==
  {AbsentFile, ZeroLengthFile, MalformedFile}
    \cup {JsonFile(Marshal(t)) : t \in UNION {InitTips(n) : n \in 0..MaxInitTips}}

\* the start of every process: no command has run yet
Boot ==
  /\ pc = "boot"
  /\ m = ZeroModel
  /\ tickCmds = EmptyBag
  /\ loadCmds = 0
  /\ inbox = EmptyBag
  /\ quitCmd = FALSE
  /\ last = Last("none", <<>>, NoSave)
  /\ nextId = FirstNewId
  /\ dismissed = {}
  /\ genSaved = {}
  /\ lost = {}
  /\ screen = Unrendered
  /\ printed = <<>>
  /\ runner = NewAPITestRunner(DefaultTestConfig)
  /\ called = NoCall

\* a display session is started with any flags on any storage file
Init ==
  /\ Boot
  /\ file \in InitFiles
  /\ topicFlag \in TopicFlags
  /\ refreshFlag \in RefreshFlags
  /\ gen = Gen("idle", <<>>, DefaultCount, 0, <<>>, <<>>)

\* a generate command is started alone, with any flags, on any storage file
GenInit ==
  /\ Boot
  /\ file \in InitFiles
  /\ topicFlag = <<>>
  /\ refreshFlag = DefaultRefresh
  /\ \E topics \in GenTopicFlags, count \in CountFlags :
       gen = Gen("idle", topics, count, 0, <<>>, <<>>)

\* a display session and a generate command for one topic are started
RaceInit ==
  /\ Boot
  /\ file \in {JsonFile(Marshal(t)) : t \in InitTips(1)}
  /\ topicFlag \in TopicFlags
  /\ refreshFlag = DefaultRefresh
  /\ gen = Gen("idle", <<G>>, 1, 0, <<>>, <<>>)

\* the models a test of View builds by hand: any collection, current tip,
\* filter, flags and status message
ViewModels ==
  {Model(td, cur, topics, rate, 0, quit, show, message) :
     td \in {NilTipsData, EmptyTipsData}
              \cup {TipsData(t, Len(t)) : t \in InitTips(1) \cup InitTips(2)},
     cur \in {NilTip, ValTip(Tip(1, G, A)), ValTip(Tip(2, V, A))},
     topics \in TopicFlags,
     rate \in RefreshFlags,
     quit \in BOOLEAN,
     show \in BOOLEAN,
     message \in {NoMessage, KnownMessage, ErrorMessage("failed to read tips file")}}

\* a model is built by hand and nothing else runs
ViewInit ==
  /\ pc = "view"
  /\ m \in ViewModels
  /\ file = AbsentFile
  /\ topicFlag = <<>>
  /\ refreshFlag = DefaultRefresh
  /\ tickCmds = EmptyBag
  /\ loadCmds = 0
  /\ inbox = EmptyBag
  /\ quitCmd = FALSE
  /\ last = Last("none", <<>>, NoSave)
  /\ gen = Gen("idle", <<>>, DefaultCount, 0, <<>>, <<>>)
  /\ nextId = FirstNewId
  /\ dismissed = {}
  /\ genSaved = {}
  /\ lost = {}
  /\ screen = Unrendered
  /\ printed = <<>>
  /\ runner = NewAPITestRunner(DefaultTestConfig)
  /\ called = NoCall

\* the collections the storage functions and removeTip are called on
\* directly: nil, and up to MaxStoreTips tips, with an id held twice and a
\* topic that is not valid UTF-8 among them
RECURSIVE StoreTips(_)
StoreTips(n) ==
  IF n = 0 THEN {<<>>}
  ELSE {Append(t, tip) : t \in StoreTips(n - 1),
                         tip \in {Tip(1, G, A), Tip(1, V, A), Tip(2, X, A)}}

StoreCollections ==
  {NilTipsData}
    \cup {TipsData(t, Len(t)) : t \in UNION {StoreTips(n) : n \in 0..MaxStoreTips}}

\* a collection is held in memory beside any storage file, and nothing else
\* runs
StoreInit ==
  /\ pc = "store"
  /\ \E td \in StoreCollections : m = [ZeroModel EXCEPT !.tipsData = td]
  /\ file \in InitFiles
  /\ topicFlag = <<>>
  /\ refreshFlag = DefaultRefresh
  /\ tickCmds = EmptyBag
  /\ loadCmds = 0
  /\ inbox = EmptyBag
  /\ quitCmd = FALSE
  /\ last = Last("none", <<>>, NoSave)
  /\ gen = Gen("idle", <<>>, DefaultCount, 0, <<>>, <<>>)
  /\ nextId = FirstNewId
  /\ dismissed = {}
  /\ genSaved = {}
  /\ lost = {}
  /\ screen = Unrendered
  /\ printed = <<>>
  /\ runner = NewAPITestRunner(DefaultTestConfig)
  /\ called = NoCall

\* a test makes a runner with some configuration, and nothing else runs
RunnerInit ==
  /\ pc = "tests"
  /\ m = ZeroModel
  /\ file = AbsentFile
  /\ topicFlag = <<>>
  /\ refreshFlag = DefaultRefresh
  /\ tickCmds = EmptyBag
  /\ loadCmds = 0
  /\ inbox = EmptyBag
  /\ quitCmd = FALSE
  /\ last = Last("none", <<>>, NoSave)
  /\ gen = Gen("idle", <<>>, DefaultCount, 0, <<>>, <<>>)
  /\ nextId = FirstNewId
  /\ dismissed = {}
  /\ genSaved = {}
  /\ lost = {}
  /\ screen = Unrendered
  /\ printed = <<>>
  /\ \E config \in TestConfigs : runner = NewAPITestRunner(config)
  /\ called = NoCall

--------------------------------------------------------------------------
(* Update, case by case: the model and the tea.Cmd it returns *)

Result(mm, cmd) == [m |-> mm, cmd |-> cmd]

\* case tea.KeyCtrlC (lines 74-76)
UpdateCtrlC(mm) == Result([mm EXCEPT !.quit = TRUE], <<QuitCmd>>)

\* case "q" (lines 80-82)
UpdateKeyQ(mm) == Result([mm EXCEPT !.quit = TRUE], <<QuitCmd>>)

\* the "n" case returning before the selection step
UpdateKeyNSkipsSelection(mm) == {Result([mm EXCEPT !.showNewTip = TRUE], <<>>)}

\* case "n" (lines 83-84), then the selection step
UpdateKeyN(mm) ==
  {Result(x, <<>>) : x \in Selection([mm EXCEPT !.showNewTip = TRUE])}

\* case "k" (lines 85-95), then the selection step: with the model and the
\* command, the file after the call and the save made
UpdateKeyK(mm, f, io) ==
  LET r == MarkKnown(mm, f, io)
  IN {[m |-> x, cmd |-> <<>>, file |-> r.file, save |-> r.save, id |-> r.id]
        : x \in Selection(r.m)}

\* a key no case names: the selection step alone
UpdateKeyOther(mm) == {Result(x, <<>>) : x \in Selection(mm)}

\* the *Tip p once the model's tipsData is replaced: the array it points into
\* is no longer the model's, and nothing writes to it any more
Detached(p, td) == IF p.kind = "ref" THEN ValTip(Deref(p, td)) ELSE p

\* the *TipsData case keeping the collection it had
UpdateTipsDataKeepsOld(mm, tips) ==
  Result([mm EXCEPT !.showNewTip = TRUE], <<>>)

\* case *TipsData (lines 98-101), tips being msg.Tips
UpdateTipsData(mm, tips) ==
  Result([mm EXCEPT !.tipsData = TipsData(tips, Len(tips)),
                    !.currentTip = Detached(@, mm.tipsData),
                    !.showNewTip = TRUE],
         <<>>)

\* the tick case scheduling two ticks
UpdateTickSchedulesTwo(mm) ==
  Result([mm EXCEPT !.showNewTip = TRUE, !.lastRefresh = 1],
         <<TickCmd(mm.refreshRate), TickCmd(mm.refreshRate), LoadCmd>>)

\* the tick case returning the next tick without the reload
UpdateTickNoLoad(mm) ==
  Result([mm EXCEPT !.showNewTip = TRUE, !.lastRefresh = 1],
         <<TickCmd(mm.refreshRate)>>)

\* case tickMsg (lines 103-106); lastRefresh is 0 for the zero time and 1 for
\* the time of a tick
UpdateTick(mm) ==
  Result([mm EXCEPT !.showNewTip = TRUE, !.lastRefresh = 1],
         <<TickCmd(mm.refreshRate), LoadCmd>>)

\* the error case setting quit
UpdateErrorQuits(mm, e) ==
  Result([mm EXCEPT !.message = ErrorMessage(e), !.quit = TRUE], <<>>)

\* the error case dropping the current tip
UpdateErrorDropsCurrent(mm, e) ==
  Result([mm EXCEPT !.message = ErrorMessage(e), !.currentTip = NilTip], <<>>)

\* case error (lines 108-110)
UpdateError(mm, e) == Result([mm EXCEPT !.message = ErrorMessage(e)], <<>>)

--------------------------------------------------------------------------
(* The event loop of p.Run(): it hands messages to Update and starts the
   commands Update returns *)

RECURSIVE TickBag(_)
TickBag(cmd) ==
  IF cmd = <<>> THEN EmptyBag
  ELSE (IF Head(cmd).c = "tick" THEN SetToBag({Head(cmd).d}) ELSE EmptyBag)
         (+) TickBag(Tail(cmd))

Count(cmd, c) == Cardinality({i \in 1..Len(cmd) : cmd[i].c = c})

\* the commands of cmd are started; fired is the bag of the ticks that fired
Issue(cmd, fired) ==
  /\ tickCmds' = (tickCmds (-) fired) (+) TickBag(cmd)
  /\ loadCmds' = loadCmds + Count(cmd, "load")
  /\ quitCmd' = (quitCmd \/ Count(cmd, "quit") > 0)

\* runBubbleTeaShow: initialModel, then p.Run() starts the loop with the
\* command of Init()
RunBubbleTeaShow ==
  /\ pc = "boot"
  /\ \E io \in IoOutcomes :
       \E mm \in initialModel(topicFlag, refreshFlag, loadTips(file, io)) :
         /\ m' = mm
         /\ printed' = printed \o initialModelPrints(loadTips(file, io))
         /\ Issue(<<TickCmd(mm.refreshRate)>>, EmptyBag)
         /\ last' = Last("init", <<TickCmd(mm.refreshRate)>>, NoSave)
         /\ screen' = View(mm)
  /\ pc' = "running"
  /\ UNCHANGED <<runner, called, topicFlag, refreshFlag, file, inbox, gen, nextId, historyVars>>

\* Update(tea.KeyMsg{Type: tea.KeyCtrlC})
KeyCtrlC ==
  /\ pc = "running"
  /\ LET r == UpdateCtrlC(m)
     IN /\ m' = r.m
        /\ Issue(r.cmd, EmptyBag)
        /\ last' = Last("ctrlc", r.cmd, NoSave)
        /\ screen' = View(r.m)
  /\ UNCHANGED <<runner, called, printed, topicFlag, refreshFlag, pc, file, inbox, gen, nextId, historyVars>>

\* Update of the key "q"
KeyQ ==
  /\ pc = "running"
  /\ LET r == UpdateKeyQ(m)
     IN /\ m' = r.m
        /\ Issue(r.cmd, EmptyBag)
        /\ last' = Last("q", r.cmd, NoSave)
        /\ screen' = View(r.m)
  /\ UNCHANGED <<runner, called, printed, topicFlag, refreshFlag, pc, file, inbox, gen, nextId, historyVars>>

\* Update of the key "n"
KeyN ==
  /\ pc = "running"
  /\ \E r \in UpdateKeyN(m) :
       /\ m' = r.m
       /\ Issue(r.cmd, EmptyBag)
       /\ last' = Last("n", r.cmd, NoSave)
       /\ screen' = View(r.m)
  /\ UNCHANGED <<runner, called, printed, topicFlag, refreshFlag, pc, file, inbox, gen, nextId, historyVars>>

\* Update of the key "k"
KeyK ==
  /\ pc = "running"
  /\ \E io \in IoOutcomes :
       \E r \in UpdateKeyK(m, file, io) :
         /\ m' = r.m
         /\ Issue(r.cmd, EmptyBag)
         /\ file' = r.file
         /\ last' = LastK(r.cmd, r.save, r.id, m.tipsData.len)
         /\ screen' = View(r.m)
         /\ dismissed' = IF r.save = "ok" THEN dismissed \cup {r.id} ELSE dismissed
         /\ lost' = IF r.save = "ok"
                    THEN lost \cup ((Ids(FileTips(file)) \ Ids(FileTips(r.file)))
                                      \ {r.id})
                    ELSE lost
  /\ UNCHANGED <<runner, called, printed, topicFlag, refreshFlag, pc, inbox, gen, nextId, genSaved>>

\* Update of a key that no case names
KeyOther ==
  /\ pc = "running"
  /\ \E r \in UpdateKeyOther(m) :
       /\ m' = r.m
       /\ Issue(r.cmd, EmptyBag)
       /\ last' = Last("other", r.cmd, NoSave)
       /\ screen' = View(r.m)
  /\ UNCHANGED <<runner, called, printed, topicFlag, refreshFlag, pc, file, inbox, gen, nextId, historyVars>>

\* Update(*TipsData): the result of a loadTipsCmd that succeeded
TipsDataMsg ==
  /\ pc = "running"
  /\ \E msg \in BagToSet(inbox) :
       /\ msg.ok
       /\ LET r == UpdateTipsData(m, msg.tips)
          IN /\ m' = r.m
             /\ Issue(r.cmd, EmptyBag)
             /\ last' = Last("tipsdata", r.cmd, NoSave)
             /\ screen' = View(r.m)
       /\ inbox' = inbox (-) SetToBag({msg})
  /\ UNCHANGED <<runner, called, printed, topicFlag, refreshFlag, pc, file, gen, nextId, historyVars>>

\* Update(error): the result of a loadTipsCmd that failed
ErrorMsg ==
  /\ pc = "running"
  /\ \E msg \in BagToSet(inbox) :
       /\ ~msg.ok
       /\ LET r == UpdateError(m, msg.err)
          IN /\ m' = r.m
             /\ Issue(r.cmd, EmptyBag)
             /\ last' = Last("error", r.cmd, NoSave)
             /\ screen' = View(r.m)
       /\ inbox' = inbox (-) SetToBag({msg})
  /\ UNCHANGED <<runner, called, printed, topicFlag, refreshFlag, pc, file, gen, nextId, historyVars>>

\* Update(tickMsg): a tea.Tick fires
TickMsg ==
  /\ pc = "running"
  /\ loadCmds + BagCardinality(inbox) < MaxInFlight
  /\ \E d \in BagToSet(tickCmds) :
       LET r == UpdateTick(m)
       IN /\ m' = r.m
          /\ Issue(r.cmd, SetToBag({d}))
          /\ last' = Last("tick", r.cmd, NoSave)
          /\ screen' = View(r.m)
  /\ UNCHANGED <<runner, called, printed, topicFlag, refreshFlag, pc, file, inbox, gen, nextId, historyVars>>

\* loadTipsCmd's function runs (in a goroutine of the event loop)
LoadTipsCmdRuns ==
  /\ pc = "running"
  /\ loadCmds > 0
  /\ \E io \in IoOutcomes : inbox' = inbox (+) SetToBag({loadTips(file, io)})
  /\ loadCmds' = loadCmds - 1
  /\ last' = NotUpdate
  /\ UNCHANGED <<runner, called, topicFlag, refreshFlag, pc, m, file, tickCmds, quitCmd, gen,
                 nextId, historyVars, screen, printed>>

\* what runSimpleShow printed and the error it returned ("" for nil)
Shown(out, err) == [out |-> out, err |-> err]

\* runSimpleShow printing the load error itself and returning nil
runSimpleShowSwallowsError(topics, refresh, r) ==
  IF ~r.ok
  THEN {Shown(<<Output("Error", <<>>, NoTip, 0, <<"error loading tips: ", r.err>>)>>,
              <<>>)}
  ELSE {Shown(<<Output("tip", <<>>, r.tips[i], refresh, NoMessage)>>, <<>>)
          : i \in 1..Len(r.tips)}

\* runSimpleShow(): everything it can print and return, r being what loadTips
\* returned
runSimpleShow(topics, refresh, r) ==
  IF ~r.ok THEN {Shown(<<>>, <<"error loading tips: ", r.err>>)}
  ELSE IF Len(r.tips) = 0
    THEN {Shown(<<Output("No tips found. Generate some tips first", <<>>, NoTip,
                         0, NoMessage)>>, <<>>)}
  ELSE {Shown(<<IF tip.kind = "nil"
                THEN IF Len(topics) > 0
                     THEN Output("No tips found for topics", topics, NoTip, 0,
                                 NoMessage)
                     ELSE Output("No tips available!", <<>>, NoTip, 0, NoMessage)
                ELSE Output("tip", <<>>, Deref(tip, TipsData(r.tips, Len(r.tips))),
                            refresh, NoMessage)>>, <<>>)
          : tip \in getRandomTip(TipsData(r.tips, Len(r.tips)), topics)}

\* showCmd, lines 42-45: what it writes to os.Stderr for the error err that
\* runBubbleTeaShow returned
showCmdPrints(err) ==
  IF err = <<>> THEN <<>> ELSE <<Output("Error", <<>>, NoTip, 0, err)>>

\* runBubbleTeaShow, lines 163-167, and showCmd, lines 42-45: p.Run() returns
\* an error, the fallback presenter runs, and the error it returns is
\* printed before os.Exit(1)
RunSimpleShow ==
  /\ pc = "running"
  /\ \E io \in IoOutcomes :
       \E r \in runSimpleShow(topicFlag, refreshFlag, loadTips(file, io)) :
         /\ printed' = printed \o r.out \o showCmdPrints(r.err)
         /\ pc' = IF r.err = <<>> THEN "exited" ELSE "exit1"
  /\ last' = Last("simple", <<>>, NoSave)
  /\ UNCHANGED <<runner, called, topicFlag, refreshFlag, m, file, tickCmds, loadCmds, inbox,
                 quitCmd, gen, nextId, historyVars, screen>>

\* the loop receives tea.Quit's QuitMsg: p.Run() returns
QuitMsg ==
  /\ pc = "running"
  /\ quitCmd
  /\ pc' = "exited"
  /\ last' = NotUpdate
  /\ UNCHANGED <<runner, called, topicFlag, refreshFlag, m, file, tickCmds, loadCmds, inbox,
                 quitCmd, gen, nextId, historyVars, screen, printed>>

\* m.View() is called on a model built by hand
Render ==
  /\ pc = "view"
  /\ screen' = View(m)
  /\ last' = Last("view", <<>>, NoSave)
  /\ UNCHANGED <<runner, called, topicFlag, refreshFlag, pc, m, file, tickCmds, loadCmds, inbox,
                 quitCmd, gen, nextId, historyVars, printed>>

\* saveTips is called on the collection held; last.save is its outcome
CallSaveTips ==
  /\ pc = "store"
  /\ \E io \in IoOutcomes :
       LET r == saveTipsOf(m.tipsData, file, io)
       IN /\ file' = r.file
          /\ last' = Last("save", <<>>, Saved(r.ok))
  /\ UNCHANGED <<runner, called, topicFlag, refreshFlag, pc, m, tickCmds, loadCmds, inbox,
                 quitCmd, gen, nextId, historyVars, screen, printed>>

\* loadTips is called: inbox holds what it returned, last.save is its outcome,
\* and the collection it returned is the one held from now on
CallLoadTips ==
  /\ pc = "store"
  /\ \E io \in IoOutcomes :
       LET r == loadTips(file, io)
       IN /\ inbox' = SetToBag({r})
          /\ m' = IF r.ok
                  THEN [m EXCEPT !.tipsData = TipsData(r.tips, Len(r.tips))]
                  ELSE m
          /\ last' = Last("load", <<>>, Saved(r.ok))
  /\ UNCHANGED <<runner, called, topicFlag, refreshFlag, pc, file, tickCmds, loadCmds, quitCmd,
                 gen, nextId, historyVars, screen, printed>>

\* removeTip(id) is called on the collection held
CallRemoveTip ==
  /\ pc = "store"
  /\ ~m.tipsData.nil
  /\ \E id \in 1..FirstNewId :
       LET r == removeTip(m.tipsData, id)
       IN /\ m' = [m EXCEPT !.tipsData = r.td]
          /\ last' = [ev |-> "remove", cmd |-> <<>>, save |-> NoSave, id |-> id,
                      n |-> m.tipsData.len, found |-> r.found]
  /\ UNCHANGED <<runner, called, topicFlag, refreshFlag, pc, file, tickCmds, loadCmds, inbox,
                 quitCmd, gen, nextId, historyVars, screen, printed>>

\* everything but the runner
restVars ==
  <<topicFlag, refreshFlag, pc, m, file, tickCmds, loadCmds, inbox, quitCmd,
    last, gen, nextId, historyVars, screen, printed>>

\* ExecuteWithRetry is called (lines 40-47)
ExecuteWithRetryStarts ==
  /\ pc = "tests"
  /\ runner.pc = "idle"
  /\ runner.requestCount < MaxRequests
  /\ runner' = [runner EXCEPT !.pc = "loop", !.attempt = 0, !.lastErr = NilError]
  /\ called' = Called("ExecuteWithRetry", 0, NilError, runner.requestCount,
                      runner.totalCost, 0, "")
  /\ UNCHANGED restVars

\* one turn of the for loop (lines 48-69): the operation is invoked and
\* returns err
Attempt ==
  /\ runner.pc = "loop"
  /\ runner.attempt <= runner.config.MaxRetries
  /\ \E err \in OperationResults :
       /\ runner' =
            IF err = NilError
            THEN [runner EXCEPT !.requestCount = @ + 1, !.pc = "idle"]
            ELSE IF ~isRetryableError(err)
            THEN [runner EXCEPT !.lastErr = err, !.pc = "idle"]
            ELSE [runner EXCEPT !.lastErr = err, !.attempt = @ + 1]
       /\ called' = [called EXCEPT !.invoked = @ + 1, !.op = err,
                                   !.ret = IF err = NilError THEN "nil"
                                           ELSE IF ~isRetryableError(err)
                                           THEN "error" ELSE ""]
  /\ UNCHANGED restVars

\* the for loop ends with every attempt made (lines 48, 71)
RetriesExhausted ==
  /\ runner.pc = "loop"
  /\ runner.attempt > runner.config.MaxRetries
  /\ runner' = [runner EXCEPT !.pc = "idle"]
  /\ called' = [called EXCEPT !.ret = "error"]
  /\ UNCHANGED restVars

\* a test calls EstimateAndCheckCost(provider, promptTokens, maxTokens)
CallEstimateAndCheckCost ==
  /\ pc = "tests"
  /\ runner.pc = "idle"
  /\ \E provider \in Providers, promptTokens \in TokenCounts,
        maxTokens \in TokenCounts :
       LET r == EstimateAndCheckCost(runner, provider, promptTokens, maxTokens)
       IN /\ runner' = r.runner
          /\ called' = Called("EstimateAndCheckCost", 0, NilError,
                              runner.requestCount, runner.totalCost,
                              estimateAPICost(provider, promptTokens, maxTokens),
                              r.ret)
  /\ UNCHANGED restVars

--------------------------------------------------------------------------
(* The generate command's steps *)

\* the command starts; without a topic it exits
GenStart ==
  /\ gen.pc = "idle"
  /\ gen' = [gen EXCEPT !.pc = IF Len(gen.topics) = 0 THEN "done" ELSE "loop",
                         !.i = 1]
  /\ last' = NotUpdate
  /\ UNCHANGED <<runner, called, sessionVars, file, nextId, historyVars>>

NextTopic == [gen EXCEPT !.pc = "loop", !.i = @ + 1, !.resp = <<>>, !.tips = <<>>]

\* one topic of the loop, up to generateTips' return
GenTopic ==
  /\ gen.pc = "loop"
  /\ gen.i <= Len(gen.topics)
  /\ IF TrimSpace(gen.topics[gen.i]) = <<>> \/ gen.count <= 0
     THEN gen' = NextTopic
     ELSE \E resp \in Responses \cup {<<>>} :
            /\ Len(resp) <= MaxNewTips - Created
            /\ gen' = IF resp = <<>>
                      THEN NextTopic
                      ELSE [gen EXCEPT !.pc = "load", !.resp = resp]
  /\ last' = NotUpdate
  /\ UNCHANGED <<runner, called, sessionVars, file, nextId, historyVars>>

\* tipsData, err := loadTips()
GenLoad ==
  /\ gen.pc = "load"
  /\ \E io \in IoOutcomes :
       LET r == loadTips(file, io)
       IN gen' = IF r.ok THEN [gen EXCEPT !.pc = "save", !.tips = r.tips]
                 ELSE NextTopic
  /\ last' = NotUpdate
  /\ UNCHANGED <<runner, called, sessionVars, file, nextId, historyVars>>

\* the addTip loop and saveTips(tipsData)
GenSave ==
  /\ gen.pc = "save"
  /\ \E io \in IoOutcomes :
       LET tips == AddAll(gen.tips, nextId, TrimSpace(gen.topics[gen.i]), gen.resp)
           s == saveTips(tips, file, io)
       IN /\ file' = s.file
          /\ nextId' = nextId + (Len(tips) - Len(gen.tips))
          /\ genSaved' = IF s.ok THEN genSaved \cup (Ids(tips) \ Ids(gen.tips))
                         ELSE genSaved
  /\ gen' = NextTopic
  /\ last' = NotUpdate
  /\ UNCHANGED <<runner, called, sessionVars, dismissed, lost>>

\* the loop is over: the command returns
GenDone ==
  /\ gen.pc = "loop"
  /\ gen.i > Len(gen.topics)
  /\ gen' = [gen EXCEPT !.pc = "done"]
  /\ last' = NotUpdate
  /\ UNCHANGED <<runner, called, sessionVars, file, nextId, historyVars>>

--------------------------------------------------------------------------
(* Specification *)

Next ==
  \/ RunBubbleTeaShow
  \/ KeyCtrlC
  \/ KeyQ
  \/ KeyN
  \/ KeyK
  \/ KeyOther
  \/ TipsDataMsg
  \/ ErrorMsg
  \/ TickMsg
  \/ LoadTipsCmdRuns
  \/ QuitMsg
  \/ RunSimpleShow
  \/ GenStart
  \/ GenTopic
  \/ GenLoad
  \/ GenSave
  \/ GenDone

\* the steps of the display session
SessionNext ==
  \/ RunBubbleTeaShow
  \/ KeyCtrlC
  \/ KeyQ
  \/ KeyN
  \/ KeyK
  \/ KeyOther
  \/ TipsDataMsg
  \/ ErrorMsg
  \/ TickMsg
  \/ LoadTipsCmdRuns
  \/ QuitMsg
  \/ RunSimpleShow

\* the display session alone on its storage file
Spec == Init /\ [][SessionNext]_vars

\* the display session and a generate command on the same storage file
RaceSpec == RaceInit /\ [][Next]_vars

\* the steps of the generate command
GenNext ==
  \/ GenStart
  \/ GenTopic
  \/ GenLoad
  \/ GenSave
  \/ GenDone

\* the generate command alone on its storage file
GenSpec == GenInit /\ [][GenNext]_vars

\* the calls a test makes on its runner
RunnerNext ==
  \/ ExecuteWithRetryStarts
  \/ Attempt
  \/ RetriesExhausted
  \/ CallEstimateAndCheckCost

RunnerSpec == RunnerInit /\ [][RunnerNext]_vars

\* a call of ExecuteWithRetry that has started goes on: its sleeps end and
\* the operation returns
RunnerLiveSpec ==
  RunnerSpec /\ WF_vars(Attempt) /\ WF_vars(RetriesExhausted)

\* the storage functions and removeTip, called directly
StoreNext ==
  \/ CallSaveTips
  \/ CallLoadTips
  \/ CallRemoveTip

StoreSpec == StoreInit /\ [][StoreNext]_vars

\* View alone, on models built by hand
ViewSpec == ViewInit /\ [][Render]_vars

--------------------------------------------------------------------------
(* Properties *)

\* the messages Update is given
UpdateEvents == {"ctrlc", "q", "n", "k", "other", "tipsdata", "tick", "error"}

\* some tip of td passes the topic filter
HasMatch(td, topics) == getRandomTip(td, topics) # {NilTip}

\* C1: when "k" is handled, the current tip's id is in the collection and
\* the save fails, the collection after the event has the same length and
\* the same tips as before it (the removal is rolled back).
C1_DismissRolledBackOnSaveFailure ==
  (last.ev = "k" /\ last.save = "fail")
    => /\ m.tipsData.len = last.n
       /\ last.id \in Ids(Tips(m.tipsData))

\* C2: when "k" is handled, the current tip's id is in the collection and
\* the save succeeds, the collection is exactly one tip shorter, holds no
\* tip with the dismissed id, and the storage file holds what was saved: the
\* collection after the removal.
C2_DismissRemovesAndSaves ==
  (last.ev = "k" /\ last.save = "ok")
    => /\ m.tipsData.len = last.n - 1
       /\ last.id \notin Ids(Tips(m.tipsData))
       /\ file = JsonFile(Marshal(Tips(m.tipsData)))

\* a dismiss with a successful save that left a tip in the collection
C2_Witness ==
  /\ last.ev = "k"
  /\ last.save = "ok"
  /\ m.tipsData.len > 0
  /\ file = JsonFile(Marshal(Tips(m.tipsData)))

\* C3: a tip the session dismissed with a successful save is never in the
\* storage file again, whatever a concurrent generate command does.
C3_DismissalPermanent ==
  \A id \in dismissed : id \notin Ids(FileTips(file))

\* C4: the session never removes from storage a tip that a generate command
\* saved there, unless the user dismisses that very tip.
C4_GeneratedTipsSurviveDismiss ==
  lost \cap genSaved = {}

\* C5: once quit is set, handling a tick changes no field of the model and
\* returns no command.
C5_TickAfterQuitIsNoOp ==
  [][(last'.ev = "tick" /\ m.quit) => (m' = m /\ last'.cmd = <<>>)]_vars

\* C6: handling a tick returns exactly one tick command, at the model's
\* refresh rate, and exactly one load command, in every state of the model;
\* the loop then has that load outstanding and that tick as its one
\* scheduled tick.
C6_TickIssuesOneTickAndOneLoad ==
  last.ev = "tick"
    => /\ last.cmd = <<TickCmd(m.refreshRate), LoadCmd>>
       /\ loadCmds >= 1
       /\ tickCmds = SetToBag({m.refreshRate})

\* a tick handled while a tip and a status message are shown
C6_Witness ==
  /\ last.ev = "tick"
  /\ last.cmd = <<TickCmd(m.refreshRate), LoadCmd>>
  /\ loadCmds = 1
  /\ m.currentTip.kind # "nil"
  /\ m.message # NoMessage

\* C7: a reload result handled after quit was set leaves the collection,
\* showNewTip and the status message as they were.
C7_ReloadAfterQuitDiscarded ==
  [][(last'.ev \in {"tipsdata", "error"} /\ m.quit)
       => /\ m'.tipsData = m.tipsData
          /\ m'.showNewTip = m.showNewTip
          /\ m'.message = m.message]_vars

C9_TickRefreshesWithoutKey ==
  (last.ev = "tipsdata" /\ ~m.quit /\ HasMatch(m.tipsData, m.topicFilter))
    => /\ ~m.showNewTip
       /\ m.currentTip.kind # "nil"
       /\ Deref(m.currentTip, m.tipsData).ID \in Ids(Tips(m.tipsData))

\* C10: when the selection step has run ("n", or "k" with a successful save)
\* and no tip of the collection passes the filter, the current tip is nil;
\* so with tips in the collection and a filter the renderer gives the "No
\* tips found for topics" text.
C10_NoMatchClearsCurrent ==
  ((last.ev = "n" \/ (last.ev = "k" /\ last.save = "ok"))
     /\ ~m.quit /\ ~m.tipsData.nil /\ ~HasMatch(m.tipsData, m.topicFilter))
    => /\ m.currentTip.kind = "nil"
       /\ (m.tipsData.len > 0 /\ Len(m.topicFilter) > 0)
            => View(m).kind = "No tips found for topics"

\* C11: after any message has been handled, a current tip that is set has
\* the id of a tip of the session's collection: a reload or a dismiss never
\* leaves it referring to a tip the collection no longer holds.
C11_CurrentNeverDangles ==
  (last.ev \in UpdateEvents /\ ~m.tipsData.nil /\ m.currentTip.kind # "nil")
    => Deref(m.currentTip, m.tipsData).ID \in Ids(Tips(m.tipsData))

\* C12: after "k" has been handled with a current tip and a successful save,
\* the model handed to the renderer carries the message "Tip marked as
\* known!", and the screen drawn from it shows that message with the tip.
C12_KnownMessageShown ==
  (last.ev = "k" /\ last.save = "ok")
    => /\ m.message = KnownMessage
       /\ screen.kind = "tip" => screen.message = KnownMessage

\* C13: after "k" has been handled with a failed save, the status message is
\* the save error text, whatever showNewTip was when the key arrived.
C13_SaveErrorShown ==
  (last.ev = "k" /\ last.save = "fail")
    => m.message = SaveErrorMessage("failed to write tips file")

\* C14: with a topic filter, the tip on the session's screen and the tip the
\* fallback presenter prints have a topic of the filter; getRandomTip on the
\* session's collection returns only tips of the collection whose topic is in
\* the filter (any tip without a filter), and nil exactly when there is none.
C14_DisplayedTipPassesFilter ==
  /\ (screen.kind = "tip" /\ Len(m.topicFilter) > 0)
       => InTopics(screen.topic, m.topicFilter)
  /\ \A i \in 1..Len(printed) :
       (printed[i].kind = "tip" /\ Len(topicFlag) > 0)
         => InTopics(printed[i].topic, topicFlag)
  /\ ~m.tipsData.nil =>
       LET matching == {i \in 1..m.tipsData.len :
                          \/ Len(m.topicFilter) = 0
                          \/ InTopics(m.tipsData.arr[i].Topic, m.topicFilter)}
           picks == getRandomTip(m.tipsData, m.topicFilter)
       IN /\ {Deref(p, m.tipsData) : p \in picks \ {NilTip}}
               = {m.tipsData.arr[i] : i \in matching}
          /\ (NilTip \in picks) = (matching = {})

\* a filtered session shows a tip while its collection holds a tip of
\* another topic
C14_Witness ==
  /\ pc = "running"
  /\ screen.kind = "tip"
  /\ Len(m.topicFilter) > 0
  /\ \E i \in 1..m.tipsData.len : ~InTopics(m.tipsData.arr[i].Topic, m.topicFilter)

\* C15: quit becomes true only in the handling of "q" or ctrl-c, and once
\* true it stays true.
C15_QuitOnlyByQuitKeys ==
  [][/\ m.quit => m'.quit
     /\ (~m.quit /\ m'.quit) => last'.ev \in {"q", "ctrlc"}]_vars

\* "k" with a failed save has been handled and the session has not quit
C15_Witness ==
  /\ last.ev = "k"
  /\ last.save = "fail"
  /\ ~m.quit
  /\ pc = "running"

\* C16: handling a failed reload sets the status message to the error text,
\* leaves the collection, the current tip and quit as they were, and returns
\* no command: no tick and no reload is started.
C16_ReloadFailureSetsMessageOnly ==
  [][last'.ev = "error"
       => /\ \E msg \in BagToSet(inbox) :
               /\ ~msg.ok
               /\ inbox' = inbox (-) SetToBag({msg})
               /\ m'.message = ErrorMessage(msg.err)
          /\ m'.tipsData = m.tipsData
          /\ m'.currentTip = m.currentTip
          /\ m'.quit = m.quit
          /\ last'.cmd = <<>>
          /\ tickCmds' = tickCmds
          /\ loadCmds' = loadCmds]_vars

\* a failed reload has been handled in a session that shows a tip
C16_Witness ==
  /\ last.ev = "error"
  /\ ~m.quit
  /\ m.currentTip.kind # "nil"
  /\ m.message = ErrorMessage("failed to read tips file")
  /\ screen.message = m.message

\* C17: handling a successful reload makes the session's collection exactly
\* the snapshot delivered, and showNewTip is true on return.
C17_ReloadReplacesCollection ==
  [][last'.ev = "tipsdata"
       => /\ \E msg \in BagToSet(inbox) :
               /\ msg.ok
               /\ inbox' = inbox (-) SetToBag({msg})
               /\ ~m'.tipsData.nil
               /\ Tips(m'.tipsData) = msg.tips
          /\ m'.showNewTip]_vars

\* a reload has delivered a snapshot read before a dismiss changed the file
C17_Witness ==
  /\ last.ev = "tipsdata"
  /\ m.showNewTip
  /\ m.tipsData.len > 0
  /\ Tips(m.tipsData) # FileTips(file)

C19_InitialTipWhenNonEmpty ==
  last.ev = "init"
    => IF m.tipsData.len > 0
       THEN /\ m.currentTip.kind # "nil"
            /\ ~m.showNewTip
            /\ screen.kind = "tip"
       ELSE /\ m.currentTip.kind = "nil"
            /\ m.showNewTip
            /\ screen.kind = "No tips found. Generate some tips first"

\* C19, amended: after initialModel, a collection with a tip passing the
\* filter gives such a tip as current tip, showNewTip false and a first
\* screen showing its topic and content; a collection with tips none of which
\* passes the filter gives no current tip, showNewTip true and the "No tips
\* found for topics" screen; an empty collection gives no current tip,
\* showNewTip true and the "Generate some tips first" screen.
C19_InitialTipWhenMatching ==
  last.ev = "init"
    => IF HasMatch(m.tipsData, m.topicFilter)
       THEN /\ m.currentTip \in getRandomTip(m.tipsData, m.topicFilter)
            /\ m.currentTip.kind # "nil"
            /\ ~m.showNewTip
            /\ screen.kind = "tip"
            /\ screen.topic = Deref(m.currentTip, m.tipsData).Topic
            /\ screen.content = Deref(m.currentTip, m.tipsData).Content
       ELSE /\ m.currentTip.kind = "nil"
            /\ m.showNewTip
            /\ screen.kind = IF m.tipsData.len = 0
                             THEN "No tips found. Generate some tips first"
                             ELSE "No tips found for topics"

\* a session has started with tips none of which passes its filter
C19_Witness ==
  /\ last.ev = "init"
  /\ m.tipsData.len > 0
  /\ ~HasMatch(m.tipsData, m.topicFilter)
  /\ screen.kind = "No tips found for topics"

\* C20: what View returns is fixed by the model alone, in this order: quit
\* gives the empty text; else a nil collection the loading text; else an
\* empty collection the "Generate some tips first" text; else no current
\* tip gives, with a filter, the "No tips found for topics" text naming the
\* filter and, without one, the "No tips available!" text; else the current
\* tip's topic and content, the control line and the status message.  A call
\* of View changes nothing of the model or the storage.
C20_ViewPrecedence ==
  [][last'.ev = "view"
       => /\ m' = m
          /\ file' = file
          /\ printed' = printed
          /\ screen'.kind =
               IF m.quit THEN ""
               ELSE IF m.tipsData.nil THEN "Loading tips..."
               ELSE IF m.tipsData.len = 0
                 THEN "No tips found. Generate some tips first"
               ELSE IF m.currentTip.kind = "nil" /\ Len(m.topicFilter) > 0
                 THEN "No tips found for topics"
               ELSE IF m.currentTip.kind = "nil" THEN "No tips available!"
               ELSE "tip"
          /\ screen'.kind = "No tips found for topics"
               => screen'.filter = m.topicFilter
          /\ screen'.kind = "tip"
               => /\ screen'.topic = Deref(m.currentTip, m.tipsData).Topic
                  /\ screen'.content = Deref(m.currentTip, m.tipsData).Content
                  /\ screen'.refresh = m.refreshRate
                  /\ screen'.message = m.message
          /\ screen'.kind # "tip" => screen'.message = NoMessage]_vars

\* View has been called on a model with tips, a filter, no current tip and a
\* status message that is not shown
C20_Witness ==
  /\ last.ev = "view"
  /\ ~m.quit
  /\ m.tipsData.len > 0
  /\ m.currentTip.kind = "nil"
  /\ m.message # NoMessage
  /\ screen.kind = "No tips found for topics"
  /\ screen.filter = m.topicFilter

\* C21, as claimed: when loadTips fails in the fallback presenter, the
\* failure is printed and the call returns no error, so the process ends
\* without a failure exit.
C21_FallbackLoadFailureNotFatal ==
  (last.ev = "simple" /\ file.kind = "malformed")
    => /\ printed # <<>>
       /\ pc = "exited"

\* C21, amended: when loadTips fails in the fallback presenter, it prints
\* nothing and returns the error "error loading tips: ..."; showCmd writes
\* that error as one line and the process exits with status 1.  When the
\* load succeeds no error line is written and the process exits normally.
C21_FallbackLoadFailureExits1 ==
  last.ev = "simple"
    => /\ file.kind = "malformed" => pc = "exit1"
       /\ file.kind = "absent" => pc = "exited"
       /\ pc \in {"exited", "exit1"}
       /\ (pc = "exit1")
            = (/\ printed # <<>>
               /\ printed[Len(printed)].kind = "Error"
               /\ printed[Len(printed)].message[1] = "error loading tips: ")
       /\ pc = "exit1"
            => \A i \in 1..(Len(printed) - 1) :
                 printed[i].kind = "Error loading tips"

\* the fallback presenter has run on a storage file that does not parse,
\* after initialModel had failed on it too
C21_Witness ==
  /\ last.ev = "simple"
  /\ file.kind = "malformed"
  /\ pc = "exit1"
  /\ Len(printed) = 2

\* C22: every tip the generate command has written to the storage file has a
\* topic and a content that are not empty, whatever contents generateTips
\* returned (blank ones included).
C22_NoEmptyTipPersisted ==
  \A i \in 1..Len(FileTips(file)) :
    FileTips(file)[i].ID \in genSaved
      => /\ FileTips(file)[i].Topic # <<>>
         /\ FileTips(file)[i].Content # <<>>

\* C23: loadTips returns an empty collection and no error when the file
\* does not exist or has no bytes, the parse error and no collection when
\* the content does not parse, and otherwise the stored tips in the order of
\* the file (a file that exists and cannot be read gives the read error); it
\* leaves the file as it is.
C23_LoadByFileContent ==
  [][last'.ev = "load"
       => /\ file' = file
          /\ \E r \in BagToSet(inbox') :
               /\ inbox' = SetToBag({r})
               /\ last'.save = Saved(r.ok)
               /\ \/ file.kind # "absent" /\ r = LoadErr("failed to read tips file")
                  \/ /\ file.kind \in {"absent", "empty"}
                     /\ r.ok /\ r.tips = <<>>
                  \/ /\ file.kind = "malformed"
                     /\ ~r.ok /\ r.err = "failed to parse tips file" /\ r.tips = <<>>
                  \/ /\ file.kind = "json"
                     /\ r.ok
                     /\ Len(r.tips) = Len(file.doc)
                     /\ \A i \in 1..Len(r.tips) :
                          r.tips[i] = Tip(file.doc[i].id, file.doc[i].topic,
                                          file.doc[i].content)]_vars

\* loadTips has returned two different tips of a file, in the file's order
C23_Witness ==
  /\ last.ev = "load"
  /\ last.save = "ok"
  /\ m.tipsData.len >= 2
  /\ Tips(m.tipsData)[1] # Tips(m.tipsData)[2]
  /\ Tips(m.tipsData) = FileTips(file)

\* C24: loadTips after a successful saveTips returns the tips that were
\* saved, ids, topics and contents, in the same order; saveTips of what
\* loadTips returned leaves the tips of the file as they were; saveTips(nil)
\* returns an error and leaves the file as it is.
C24_SaveLoadRoundTrip ==
  [][/\ (last.ev = "save" /\ last.save = "ok" /\ last'.ev = "load" /\ last'.save = "ok")
          => Tips(m'.tipsData) = Tips(m.tipsData)
     /\ (last.ev = "load" /\ last.save = "ok" /\ last'.ev = "save" /\ last'.save = "ok")
          => FileTips(file') = FileTips(file)
     /\ (last'.ev = "save" /\ m.tipsData.nil)
          => (last'.save = "fail" /\ file' = file)]_vars

\* C30: removeTip(id) returns true exactly when a tip of the collection has
\* the id; then the first such tip, and no other, is gone and the other tips
\* keep their order; on false the collection is as it was.
C30_RemoveFirstMatch ==
  [][last'.ev = "remove"
       => LET before == Tips(m.tipsData)
              after == Tips(m'.tipsData)
              hits == {i \in 1..Len(before) : before[i].ID = last'.id}
          IN /\ last'.found = (hits # {})
             /\ hits = {} => after = before
             /\ hits # {}
                  => \E i \in hits :
                       /\ \A j \in hits : i <= j
                       /\ after = SubSeq(before, 1, i - 1)
                                    \o SubSeq(before, i + 1, Len(before))]_vars

\* removeTip has taken one of two tips with the same id out of three tips
C30_Witness ==
  /\ last.ev = "remove"
  /\ last.found
  /\ last.n = 3
  /\ m.tipsData.len = 2
  /\ last.id \in Ids(Tips(m.tipsData))

\* C25: the tip the current tip denotes changes only when the selection step
\* assigns a pick: after "k" with a failed save and no selection (the save
\* error is still the status message), the current tip is still the tip
\* that was shown when the key arrived, the one removeTip was called with.
C25_CurrentKeepsItsTip ==
  (last.ev = "k" /\ last.save = "fail" /\ m.message # NoMessage
     /\ m.currentTip.kind # "nil")
    => Deref(m.currentTip, m.tipsData).ID = last.id

\* C26: while the loop runs exactly one tick is scheduled: Init schedules
\* the first, a handled tick returns exactly one tick and one reload, and no
\* other message returns a tick or a reload, so no reload is outstanding
\* before a tick has been handled.
C26_OneTickScheduled ==
  /\ pc = "running" => BagCardinality(tickCmds) = 1
  /\ last.ev = "init" => last.cmd = <<TickCmd(m.refreshRate)>>
  /\ last.ev = "tick"
       => (Count(last.cmd, "tick") = 1 /\ Count(last.cmd, "load") = 1)
  /\ last.ev \in UpdateEvents \ {"tick"}
       => (Count(last.cmd, "tick") = 0 /\ Count(last.cmd, "load") = 0)
  /\ m.lastRefresh = 0 => (loadCmds = 0 /\ inbox = EmptyBag)

\* a tick and the reload it started have been handled and one tick is
\* scheduled
C26_Witness ==
  /\ pc = "running"
  /\ last.ev = "tipsdata"
  /\ m.lastRefresh = 1
  /\ BagCardinality(tickCmds) = 1
  /\ loadCmds = 0

\* C27: the session writes the storage file only in the handling of "k" with
\* a current tip whose id is in the collection; no other step of the session
\* calls saveTips or changes the file.
C27_WritesOnlyOnDismiss ==
  [][/\ file' # file => (last'.ev = "k" /\ last'.save = "ok")
     /\ last'.save # NoSave
          => /\ last'.ev = "k"
             /\ m.currentTip.kind # "nil"
             /\ ~m.tipsData.nil
             /\ Deref(m.currentTip, m.tipsData).ID \in Ids(Tips(m.tipsData))]_vars

\* the last tip has been dismissed and the file written without tips
C27_Witness ==
  /\ pc = "running"
  /\ last.ev = "k"
  /\ last.save = "ok"
  /\ m.tipsData.len = 0
  /\ file = JsonFile(<<>>)

\* C28: when "k" is handled with no current tip, or with a current tip whose
\* id is not in the collection, the collection and the file stay as they
\* are, saveTips is not called and no status message is set (the selection
\* step may clear the one there was).
C28_DismissWithoutTipIsNoOp ==
  [][(/\ last'.ev = "k"
      /\ \/ m.currentTip.kind = "nil"
         \/ Deref(m.currentTip, m.tipsData).ID \notin Ids(Tips(m.tipsData)))
       => /\ m'.tipsData = m.tipsData
          /\ file' = file
          /\ last'.save = NoSave
          /\ m'.message \in {m.message, NoMessage}]_vars

\* "k" has been handled with a current tip whose id the collection does not
\* hold, and the status message of an earlier event is still there
C28_Witness ==
  /\ last.ev = "k"
  /\ last.save = NoSave
  /\ last.id # 0
  /\ m.tipsData.len > 0
  /\ m.message # NoMessage

\* C29: after "n" is handled in a session that has not quit, showNewTip is
\* false and, when a tip of the collection passes the filter, the current
\* tip is such a tip of the present collection; the collection and the file
\* are as before the key.
C29_NextPicksFromCollection ==
  [][(last'.ev = "n" /\ ~m.quit /\ ~m.tipsData.nil)
       => /\ m'.tipsData = m.tipsData
          /\ file' = file
          /\ ~m'.showNewTip
          /\ HasMatch(m'.tipsData, m'.topicFilter)
               => m'.currentTip \in getRandomTip(m'.tipsData, m'.topicFilter)
                                      \ {NilTip}]_vars

\* "n" has been handled after a tick, with two tips in the collection
C29_Witness ==
  /\ last.ev = "n"
  /\ ~m.quit
  /\ m.lastRefresh = 1
  /\ m.tipsData.len = 2
  /\ m.currentTip.kind # "nil"
  /\ ~m.showNewTip

\* s is the beginning of t
IsPrefix(s, t) == Len(s) <= Len(t) /\ SubSeq(t, 1, Len(s)) = s

\* C31: a generate command running alone never removes or reorders stored
\* tips: every step leaves in the file the tips it held, in their order,
\* followed by the new ones if any; a blank topic, a count that is not
\* positive, a failed generation and a failed load add none and leave the
\* file as it is, and the loop goes on with the next topic: the command
\* ends only when every topic has been gone through.
C31_GenerateOnlyAppends ==
  [][/\ IsPrefix(FileTips(file), FileTips(file'))
     /\ \A i \in (Len(FileTips(file)) + 1)..Len(FileTips(file')) :
          FileTips(file')[i].ID >= nextId
     /\ (/\ gen.pc = "loop" /\ gen.i <= Len(gen.topics)
         /\ (TrimSpace(gen.topics[gen.i]) = <<>> \/ gen.count <= 0))
          => (file' = file /\ gen'.pc = "loop" /\ gen'.i = gen.i + 1)
     /\ (gen.pc \in {"loop", "load"} /\ gen'.pc = "loop")
          => (file' = file /\ gen'.i = gen.i + 1)
     /\ gen.pc = "save" => (gen'.pc = "loop" /\ gen'.i = gen.i + 1)
     /\ (gen.pc # "done" /\ gen'.pc = "done")
          => (Len(gen.topics) = 0 \/ gen.i > Len(gen.topics))]_vars

\* a command given a blank topic and then a topic has ended with the second
\* topic's tip after the tips the file held
C31_Witness ==
  /\ gen.pc = "done"
  /\ gen.topics = <<Blank, V>>
  /\ Len(FileTips(file)) = MaxInitTips + 1
  /\ FileTips(file)[MaxInitTips + 1].Topic = V
  /\ FileTips(file)[MaxInitTips + 1].ID = FirstNewId


C33_CostWithinLimit ==
  /\ [](runner.totalCost <= runner.config.MaxCostUSD)
  /\ [][called'.name = "EstimateAndCheckCost" =>
          /\ called'.est >= 0
          /\ runner.totalCost + called'.est > runner.config.MaxCostUSD =>
               (called'.ret = "error" /\ runner'.totalCost = runner.totalCost)
          /\ runner.totalCost + called'.est <= runner.config.MaxCostUSD =>
               /\ called'.ret = "nil"
               /\ runner'.totalCost = runner.totalCost + called'.est]_vars

\* a call was refused with part of the default budget spent
C33_Witness ==
  /\ called.name = "EstimateAndCheckCost"
  /\ called.ret = "error"
  /\ runner.config.MaxCostUSD = DefaultMaxCostUSD
  /\ runner.totalCost > 0
  /\ runner.totalCost = called.cost
  /\ runner.totalCost + called.est > DefaultMaxCostUSD

====
